---- MODULE Spec2Model ----
(***************************************************************************)
(* Restless-bandit simulation of discrete_RB.py: the finite-population     *)
(* environment RB and the Follow-the-Virtual-Advice policy FTVAPolicy,     *)
(* driven by the simulation loop                                           *)
(*     cur = rb.get_states()                                               *)
(*     actions, virtual_actions = policy.get_actions(cur, tb_rule, param)  *)
(*     rb.step(actions)                                                    *)
(*     policy.virtual_step(cur, rb.get_states(), actions, virtual_actions) *)
(* Probabilities are modelled by their supports: a draw of                 *)
(* np.random.choice is a nondeterministic choice among the outcomes of     *)
(* positive probability.  act_frac is a rational <<num, den>> and y holds  *)
(* integer weights (an occupation measure over a common denominator), so   *)
(* that all arithmetic is exact.                                           *)
(***************************************************************************)
EXTENDS Integers, Sequences, FiniteSets

\* number of arms (self.N) and size of the state space (self.sspa_size)
N == 3
sspa_size == 2

Arms == 0..(N - 1)
sspa == 0..(sspa_size - 1)
aspa == {0, 1}

\* self.sa_pairs: for action in aspa: [(state, action) for state in sspa]
sa_pairs == [k \in 1..(2 * sspa_size) |-> <<(k - 1) % sspa_size, (k - 1) \div sspa_size>>]

VARIABLES
    states,          \* RB.states: real state of every arm
    virtual_states,  \* FTVAPolicy.virtual_states
    trans_tensor,    \* support of P(s, a, .): trans_tensor[s][a] is a set of states
    y,               \* FTVAPolicy.y: y[s] = <<weight of (s,0), weight of (s,1)>>
    act_frac,        \* FTVAPolicy.act_frac as <<numerator, denominator>>
    pc,              \* position of the simulation loop
    prev_states,     \* the loop's copy of the real states taken before RB.step
    actions,         \* real actions returned by get_actions
    virtual_actions, \* virtual actions returned by get_actions
    tb_rule,         \* argument of the last get_actions call
    tb_param,        \* argument of the last get_actions call
    budget,          \* get_actions: rounded budget
    rem_budget,      \* get_actions: remaining budget when the greedy fill ended
    agree_mask,      \* virtual_step: arms that agreed in the last call
    err,             \* exception that ended the run, "none" if there is none
    reward_tensor,   \* r(s, a): reward_tensor[s] = <<r(s,0), r(s,1)>>
    priority_list,   \* PriorityPolicy.priority_list; the list a solve_* call returned
    sampled,         \* RandomTBPolicy.get_actions: actions as drawn, before the repair
    analyzer,        \* SingleArmAnalyzer: dualvar and the scratch fields of the last solve
    fixed_dual,      \* solve_LP_Priority: argument of the last call
    dual_value,      \* dual_value of the constraints after the last problem.solve()
    passive_table,   \* solve_whittles_policy: passive_table[state][grid point]
    indexable,       \* solve_whittles_policy: the returned flag
    num_arms,        \* states_from_state_fracs: argument N
    state_fracs,     \* states_from_state_fracs: argument, as integer weights
    frac_states,     \* states_from_state_fracs: the returned array
    sa_pair_fracs,   \* PriorityPolicy.get_sa_pair_fracs: the returned array
    instant_reward   \* RB.step: the returned reward, as <<numerator, denominator>>

\* the variables of the policies of section 4.2, of the solver and of the helpers
solverVars == <<reward_tensor, analyzer, fixed_dual, dual_value, passive_table, indexable>>
fracVars == <<num_arms, state_fracs, frac_states, sa_pair_fracs>>
otherVars == <<priority_list, sampled, solverVars, fracVars>>

vars == <<states, virtual_states, trans_tensor, y, act_frac, pc, prev_states,
          actions, virtual_actions, tb_rule, tb_param, budget, rem_budget,
          agree_mask, err, otherVars, instant_reward>>

params == <<trans_tensor, y, act_frac>>

Zeros == [i \in Arms |-> 0]
\* no rb.step call has returned a reward
NoReward == <<0, 1>>

(***************************************************************************)
(* Inputs of the construction                                              *)
(***************************************************************************)

\* Transition kernels (supports), for any sspa_size.
\* Reset kernel: passive stays or falls back to 0, active moves up cyclically.
KernelReset == [s \in sspa |-> [a \in aspa |->
                  IF a = 0 THEN {s, 0} ELSE {(s + 1) % sspa_size}]]
\* Deterministic kernel: passive stays, active moves up cyclically.
KernelCycle == [s \in sspa |-> [a \in aspa |->
                  IF a = 0 THEN {s} ELSE {(s + 1) % sspa_size}]]

\* Occupation measures (integer weights).
\* state 0 always active, state 1 mixed, further states always passive
YMixed == [s \in sspa |-> IF s = 0 THEN <<0, 1>> ELSE IF s = 1 THEN <<1, 1>> ELSE <<1, 0>>]
\* state 0 always passive, state 1 has no mass, further states always active
YSplit == [s \in sspa |-> IF s = 0 THEN <<1, 0>> ELSE IF s = 1 THEN <<0, 0>> ELSE <<0, 1>>]

\* the problem instances: <<trans_tensor, y, act_frac>>
Configs == { <<KernelReset, YMixed, <<1, 2>> >>,
             <<KernelCycle, YSplit, <<1, 3>> >>,
             <<KernelReset, YSplit, <<1, 2>> >> }

\* reward functions: r(s, .) = (s, s) in units of 1/2, and a reward of s + 1
\* units for the active action only
RewardByState == [s \in sspa |-> <<2 * s, 2 * s>>]
RewardActive == [s \in sspa |-> <<0, s + 1>>]

\* tb_param: a list (isList) or anything else (None)
NoParam == [isList |-> FALSE, list |-> <<>>]
ListParam(l) == [isList |-> TRUE, list |-> l]
IsPermutation(l) == /\ Len(l) = sspa_size
                    /\ \A s \in sspa : \E k \in 1..Len(l) : l[k] = s
Perms == {l \in [1..sspa_size -> sspa] : IsPermutation(l)}
\* lists that do not partition the states: one omits the last state, one repeats state 0
OmitList == [k \in 1..(sspa_size - 1) |-> k - 1]
RepeatList == [k \in 1..sspa_size |-> 0]
TbParams == {ListParam(l) : l \in Perms \cup {OmitList, RepeatList}} \cup {NoParam}
TbRules == {"None", "goodness", "naive", "priority", "goodness-priority", "whittle"}
\* the calls get_actions is checked on: tb_param is passed with the two rules
\* that read it
TbCalls == {<<r, NoParam>> : r \in TbRules}
           \cup {<<r, p>> : r \in {"priority", "goodness-priority"}, p \in TbParams}
\* the calls the simulation loop makes: every rule, the list-based ones with the
\* states in increasing or in decreasing order, and an unsupported rule
Increasing == [k \in 1..sspa_size |-> k - 1]
Decreasing == [k \in 1..sspa_size |-> sspa_size - k]
LoopCalls == {<<r, NoParam>> : r \in {"None", "goodness", "naive", "whittle"}}
             \cup {<<r, ListParam(l)>> : r \in {"priority", "goodness-priority"},
                                        l \in {Increasing, Decreasing}}

(***************************************************************************)
(* FTVAPolicy.__init__: the randomized policy derived from y               *)
(***************************************************************************)
\* a policy that gives every action positive probability in every state
policyAny(yy, s) == aspa
\* support of self.policy[s, :]
policy(yy, s) == IF yy[s][1] + yy[s][2] > 0
                 THEN {a \in aspa : yy[s][a + 1] > 0}
                 ELSE aspa

(***************************************************************************)
(* Shared helpers                                                          *)
(***************************************************************************)
\* arr[idx] = np.random.choice(sspa-or-aspa, len(idx), p): every arm of idx
\* gets an independent draw from supp, the others keep their entry
Resample(arr, idx, supp) ==
    {[i \in Arms |-> IF i \in idx THEN f[i] ELSE arr[i]] : f \in [idx -> supp]}

\* np.sum of the entries of f with index in S
RECURSIVE Sum(_, _)
Sum(f, S) == IF S = {} THEN 0
             ELSE LET x == CHOOSE z \in S : TRUE IN f[x] + Sum(f, S \ {x})

\* np.random.choice(idx, k, replace=False)
ChooseK(idx, k) == {c \in SUBSET idx : Cardinality(c) = k}

\* actions[idx] = 1
SetOnes(arr, idx) == [i \in Arms |-> IF i \in idx THEN 1 ELSE arr[i]]
\* actions[idx] = 0
SetZeros(arr, idx) == [i \in Arms |-> IF i \in idx THEN 0 ELSE arr[i]]

Ones(arr) == {i \in Arms : arr[i] = 1}
NumOnes(arr) == Cardinality(Ones(arr))

(***************************************************************************)
(* FTVAPolicy.get_actions                                                  *)
(***************************************************************************)
\* Budgets rounding up with positive probability even when N * act_frac is whole
BudgetsAnyRoundUp(af) ==
    {(N * af[1]) \div af[2], ((N * af[1]) \div af[2]) + 1}
\* budget = int(N * act_frac); budget += binomial(1, N * act_frac - budget)
Budgets(af) ==
    LET fl == (N * af[1]) \div af[2]
    IN  IF (N * af[1]) % af[2] = 0 THEN {fl} ELSE {fl, fl + 1}

\* virtual_actions: for every state, the arms whose virtual state it is draw
\* from policy[state]; folded over sspa in increasing order
RECURSIVE DrawVirtualActions(_, _, _, _)
DrawVirtualActions(s, va, vs, yy) ==
    IF s >= sspa_size THEN {va}
    ELSE UNION {DrawVirtualActions(s + 1, nxt, vs, yy) :
                  nxt \in Resample(va, {i \in Arms : vs[i] = s}, policy(yy, s))}

\* good_arm_mask = cur_states == self.virtual_states
GoodArms(cur, vs) == {i \in Arms : cur[i] = vs[i]}

\* GoodnessClasses with the two passive levels in the other order
GoodnessClassesSwapped(cur, vs, va) ==
    << {i \in Arms : va[i] = 1 /\ i \in GoodArms(cur, vs)},
       {i \in Arms : va[i] = 1 /\ i \notin GoodArms(cur, vs)},
       {i \in Arms : va[i] = 0 /\ i \in GoodArms(cur, vs)},
       {i \in Arms : va[i] = 0 /\ i \notin GoodArms(cur, vs)} >>
\* GoodnessClasses with the bad requests ahead of the good ones
GoodnessClassesBadFirst(cur, vs, va) ==
    << {i \in Arms : va[i] = 1 /\ i \notin GoodArms(cur, vs)},
       {i \in Arms : va[i] = 1 /\ i \in GoodArms(cur, vs)},
       {i \in Arms : va[i] = 0 /\ i \notin GoodArms(cur, vs)},
       {i \in Arms : va[i] = 0 /\ i \in GoodArms(cur, vs)} >>
\* the four levels of the goodness rule:
\* request+good, request+bad, no_req+bad, no_req+good
GoodnessClasses(cur, vs, va) ==
    << {i \in Arms : va[i] = 1 /\ i \in GoodArms(cur, vs)},
       {i \in Arms : va[i] = 1 /\ i \notin GoodArms(cur, vs)},
       {i \in Arms : va[i] = 0 /\ i \notin GoodArms(cur, vs)},
       {i \in Arms : va[i] = 0 /\ i \in GoodArms(cur, vs)} >>

\* PriorityClasses with the passive class first
PriorityClassesReversed(va) ==
    << {i \in Arms : va[i] = 0}, {i \in Arms : va[i] = 1} >>
\* the two rough classes of the priority rule: [virtual_actions, 1-virtual_actions]
PriorityClasses(va) ==
    << {i \in Arms : va[i] = 1}, {i \in Arms : va[i] = 0} >>

\* RefineLevels walking tb_param from its low-priority end
RefineLevelsReversed(classes, vs, list) ==
    [k \in 1..(Len(classes) * Len(list)) |->
        {i \in classes[((k - 1) \div Len(list)) + 1] :
            vs[i] = list[Len(list) - ((k - 1) % Len(list))]}]
\* for rough_class in classes: for i in range(len(tb_param)):
\*     priority_levels.append(np.where(rough_class * (virtual_states == tb_param[i]))[0])
RefineLevels(classes, vs, list) ==
    [k \in 1..(Len(classes) * Len(list)) |->
        {i \in classes[((k - 1) \div Len(list)) + 1] : vs[i] = list[((k - 1) % Len(list)) + 1]}]

\* the greedy fill along the levels, from level k on; the result is the set of
\* possible <<actions, rem_budget>> at the end of the loop
RECURSIVE Fill(_, _, _, _)
Fill(levels, k, acts, rem) ==
    IF k > Len(levels) THEN {<<acts, rem>>}
    ELSE IF rem >= Cardinality(levels[k])
         THEN Fill(levels, k + 1, SetOnes(acts, levels[k]), rem - Cardinality(levels[k]))
         ELSE {<<SetOnes(acts, c), 0>> : c \in ChooseK(levels[k], rem)}

\* return actions, virtual_actions (rem is the fill's rem_budget at that point)
Returned(acts, vacts, rem) ==
    [err |-> "none", actions |-> acts, virtual_actions |-> vacts, rem_budget |-> rem]
\* an exception leaves the function
Raised(e) == [err |-> e, actions |-> Zeros, virtual_actions |-> Zeros, rem_budget |-> 0]

\* assert type(tb_param) == list
IsListUnchecked(param) == TRUE
IsList(param) == param.isList

\* NaiveRepair without the copy: actions is virtual_actions itself
NaiveRepairInPlace(va, b) ==
    IF NumOnes(va) > b
    THEN {Returned(SetZeros(va, c), SetZeros(va, c), 0) :
            c \in ChooseK(Ones(va), NumOnes(va) - b)}
    ELSE {Returned(SetOnes(va, c), SetOnes(va, c), 0) :
            c \in ChooseK(Arms \ Ones(va), b - NumOnes(va))}
\* the naive rule: actions = virtual_actions.copy(), then flip a random subset of
\* the requests, or of the non-requests (choice raises when asked for more
\* arms than there are)
NaiveRepair(va, b) ==
    IF NumOnes(va) > b
    THEN {Returned(SetZeros(va, c), va, 0) : c \in ChooseK(Ones(va), NumOnes(va) - b)}
    ELSE IF b - NumOnes(va) > Cardinality(Arms \ Ones(va))
         THEN {Raised("ValueError")}
         ELSE {Returned(SetOnes(va, c), va, 0) :
                 c \in ChooseK(Arms \ Ones(va), b - NumOnes(va))}

\* the branches on tb_rule: the set of possible outcomes of the call
TieBreak(rule, param, cur, vs, va, b) ==
    IF rule \in {"None", "goodness"}
    THEN {Returned(r[1], va, r[2]) : r \in Fill(GoodnessClasses(cur, vs, va), 1, Zeros, b)}
    ELSE IF rule = "naive"
    THEN NaiveRepair(va, b)
    ELSE IF rule = "priority"
    THEN IF ~IsList(param) THEN {Raised("AssertionError")}
         ELSE {Returned(r[1], va, r[2]) :
                 r \in Fill(RefineLevels(PriorityClasses(va), vs, param.list), 1, Zeros, b)}
    ELSE IF rule = "goodness-priority"
    THEN IF ~IsList(param) THEN {Raised("AssertionError")}
         ELSE {Returned(r[1], va, r[2]) :
                 r \in Fill(RefineLevels(GoodnessClasses(cur, vs, va), vs, param.list), 1, Zeros, b)}
    ELSE {Raised("NotImplementedError")}

\* get_actions that also snaps the virtual state of every arm it activates to
\* the arm's real state
GetActionsSnapping(calls) ==
    /\ pc = "get_actions"
    /\ \E call \in calls, b \in Budgets(act_frac) :
       \E va \in DrawVirtualActions(0, Zeros, virtual_states, y) :
       \E res \in TieBreak(call[1], call[2], states, virtual_states, va, b) :
          /\ tb_rule' = call[1]
          /\ tb_param' = call[2]
          /\ budget' = b
          /\ err' = res.err
          /\ virtual_states' = [i \in Arms |-> IF res.actions[i] = 1 THEN states[i]
                                                ELSE virtual_states[i]]
          /\ IF res.err = "none"
             THEN /\ actions' = res.actions
                  /\ virtual_actions' = res.virtual_actions
                  /\ rem_budget' = res.rem_budget
                  /\ pc' = "step"
             ELSE /\ pc' = "failed"
                  /\ UNCHANGED <<actions, virtual_actions, rem_budget>>
    /\ UNCHANGED <<states, prev_states, agree_mask, params, otherVars, instant_reward>>

GetActions(calls) ==
    /\ pc = "get_actions"
    /\ \E call \in calls, b \in Budgets(act_frac) :
       \E va \in DrawVirtualActions(0, Zeros, virtual_states, y) :
       \E res \in TieBreak(call[1], call[2], states, virtual_states, va, b) :
          /\ tb_rule' = call[1]
          /\ tb_param' = call[2]
          /\ budget' = b
          /\ err' = res.err
          /\ IF res.err = "none"
             THEN /\ actions' = res.actions
                  /\ virtual_actions' = res.virtual_actions
                  /\ rem_budget' = res.rem_budget
                  /\ pc' = "step"
             ELSE /\ pc' = "failed"
                  /\ UNCHANGED <<actions, virtual_actions, rem_budget>>
    /\ UNCHANGED <<states, virtual_states, prev_states, agree_mask, params, otherVars,
                   instant_reward>>

(***************************************************************************)
(* RB.step                                                                 *)
(***************************************************************************)
\* sa2indices[sa_pair]: the arms whose (state, action) is sa_pair, all
\* computed before any arm moves
Buckets(sts, acts, among) ==
    [k \in 1..Len(sa_pairs) |->
        {i \in among : sts[i] = sa_pairs[k][1] /\ acts[i] = sa_pairs[k][2]}]

\* for sa_pair in sa_pairs: arr[sa2indices[sa_pair]] = choice(sspa, ..., p=P[sa_pair])
RECURSIVE MoveBuckets(_, _, _, _)
MoveBuckets(k, arr, sa2indices, P) ==
    IF k > Len(sa_pairs) THEN {arr}
    ELSE UNION {MoveBuckets(k + 1, nxt, sa2indices, P) :
                  nxt \in Resample(arr, sa2indices[k], P[sa_pairs[k][1]][sa_pairs[k][2]])}

\* a loop over sa_pairs that looks up each bucket only when its turn comes, so
\* that an arm moved into a later bucket's state moves again
RECURSIVE MoveLazy(_, _, _, _, _)
MoveLazy(k, arr, vacts, among, P) ==
    IF k > Len(sa_pairs) THEN {arr}
    ELSE UNION {MoveLazy(k + 1, nxt, vacts, among, P) :
                  nxt \in Resample(arr,
                                   {i \in among : arr[i] = sa_pairs[k][1] /\ vacts[i] = sa_pairs[k][2]},
                                   P[sa_pairs[k][1]][sa_pairs[k][2]])}
\* RB.step with the lazy bucket lookup
RBStepResultsLazy(sts, acts, P) == MoveLazy(1, sts, acts, Arms, P)
\* RB.step: the buckets are computed first, then every bucket is moved
RBStepResults(sts, acts, P) == MoveBuckets(1, sts, Buckets(sts, acts, Arms), P)

\* instant_reward: the sum over sa_pairs of reward_dict[sa_pair] * len(sa2indices[sa_pair]),
\* then / self.N (kept as a fraction)
InstantReward(sts, acts, r) ==
    << Sum([k \in 1..Len(sa_pairs) |->
              r[sa_pairs[k][1]][sa_pairs[k][2] + 1] * Cardinality(Buckets(sts, acts, Arms)[k])],
           1..Len(sa_pairs)),
       N >>

\* the loop keeps the states read before the step, then calls rb.step(actions)
RBStep ==
    /\ pc = "step"
    /\ prev_states' = states
    /\ states' \in RBStepResults(states, actions, trans_tensor)
    /\ instant_reward' = InstantReward(states, actions, reward_tensor)
    /\ pc' = "virtual_step"
    \* the arguments and locals of get_actions are gone
    /\ tb_rule' = "None"
    /\ tb_param' = NoParam
    /\ budget' = 0
    /\ rem_budget' = 0
    /\ UNCHANGED <<virtual_states, actions, virtual_actions, agree_mask, err, params,
                   otherVars>>

(***************************************************************************)
(* FTVAPolicy.virtual_step                                                 *)
(***************************************************************************)
\* agree_mask = np.all([prev_states == virtual_states, actions == virtual_actions], axis=0)
AgreeMask(prev, vs, acts, vacts) ==
    {i \in Arms : prev[i] = vs[i] /\ acts[i] = vacts[i]}

\* Couple that adds the real state to the virtual state of an agreeing arm
CoupleSummed(vs, cur, agree) == [i \in Arms |-> IF i \in agree THEN cur[i] + vs[i] ELSE vs[i]]
\* Couple that leaves the agreeing arms where they were
CoupleStale(vs, cur, agree) == vs
\* self.virtual_states[agree_indices] = cur_states[agree_indices]
Couple(vs, cur, agree) == [i \in Arms |-> IF i \in agree THEN cur[i] ELSE vs[i]]

\* BadBuckets without the 1 - agree_mask condition
BadBucketsAll(vs, vacts, agree) == Buckets(vs, vacts, Arms)
\* the bad arms, bucketed by (virtual state, virtual action): sa2indices
BadBuckets(vs, vacts, agree) == Buckets(vs, vacts, Arms \ agree)

\* virtual_step with the lazy bucket lookup of MoveLazy
VirtualStepResultsLazy(vs, prev, cur, acts, vacts, P) ==
    MoveLazy(1, Couple(vs, cur, AgreeMask(prev, vs, acts, vacts)), vacts,
             Arms \ AgreeMask(prev, vs, acts, vacts), P)

\* the whole update: couple the agreeing arms, then move the bad ones
VirtualStepResults(vs, prev, cur, acts, vacts, P) ==
    LET agree == AgreeMask(prev, vs, acts, vacts)
        coupled == Couple(vs, cur, agree)
    IN  MoveBuckets(1, coupled, BadBuckets(coupled, vacts, agree), P)

VirtualStep ==
    /\ pc = "virtual_step"
    /\ agree_mask' = AgreeMask(prev_states, virtual_states, actions, virtual_actions)
    /\ virtual_states' \in VirtualStepResults(virtual_states, prev_states, states,
                                              actions, virtual_actions, trans_tensor)
    /\ pc' = "round_done"
    /\ UNCHANGED <<states, prev_states, actions, virtual_actions, tb_rule, tb_param,
                   budget, rem_budget, err, params, otherVars, instant_reward>>

\* the loop goes to its next round: the locals of the round that ended are dead
NextRound ==
    /\ pc = "round_done"
    /\ pc' = "get_actions"
    /\ prev_states' = Zeros
    /\ actions' = Zeros
    /\ virtual_actions' = Zeros
    /\ agree_mask' = {}
    /\ instant_reward' = NoReward
    /\ UNCHANGED <<states, virtual_states, tb_rule, tb_param, budget, rem_budget,
                   err, params, otherVars>>

(***************************************************************************)
(* The simulation                                                          *)
(***************************************************************************)
\* SingleArmAnalyzer.__init__: dualvar is a cp.Parameter, the scratch fields
\* are empty (None and the zero arrays are written 0; a rational is <<num, den>>)
NewAnalyzer ==
    [dualvar |-> "Parameter",
     avg_reward |-> 0,
     opt_subsidy |-> 0,
     value_func_relaxed |-> [s \in sspa |-> 0],
     q_func_relaxed |-> [s \in sspa |-> << <<0, 1>>, <<0, 1>> >>]]

\* fixed_dual=None, and a number passed as fixed_dual
NoDual == [given |-> FALSE, value |-> 0]
FixedDual(v) == [given |-> TRUE, value |-> v]
\* the dual values of the stationary constraints (constrs[0..S-1]), of the
\* budget constraint and of the constraint cp.sum(y) == 1 (constrs[-1])
DualValue(nu, beta, gamma) == [stationary |-> nu, budget |-> beta, basic |-> gamma]
NoDualValue == DualValue([s \in sspa |-> 0], 0, 0)

\* no solve call made
NoSolve ==
    /\ analyzer = NewAnalyzer
    /\ fixed_dual = NoDual
    /\ dual_value = NoDualValue
    /\ passive_table = <<>>
    /\ indexable = FALSE
\* no solver constructed, no solve call made
NoSolver ==
    /\ reward_tensor = [s \in sspa |-> <<0, 0>>]
    /\ NoSolve
\* no call of states_from_state_fracs made
NoFracs ==
    /\ num_arms = 0
    /\ state_fracs = <<>>
    /\ frac_states = <<>>
    /\ sa_pair_fracs = <<>>
\* everything a get_actions call of FTVAPolicy leaves behind, before any call
NoCall ==
    /\ prev_states = Zeros
    /\ actions = Zeros
    /\ virtual_actions = Zeros
    /\ tb_rule = "None"
    /\ tb_param = NoParam
    /\ budget = 0
    /\ rem_budget = 0
    /\ agree_mask = {}
    /\ err = "none"

Init ==
    /\ states \in [Arms -> sspa]
    /\ virtual_states \in [Arms -> sspa]
    /\ \E c \in Configs : /\ trans_tensor = c[1]
                          /\ y = c[2]
                          /\ act_frac = c[3]
    /\ pc = "get_actions"
    /\ NoCall
    /\ instant_reward = NoReward
    /\ reward_tensor = RewardActive
    /\ priority_list = <<>>
    /\ sampled = Zeros
    /\ NoSolve
    /\ NoFracs

\* the simulation loop
LoopGetActions == GetActions(LoopCalls)
Next == LoopGetActions \/ RBStep \/ VirtualStep \/ NextRound
Spec == Init /\ [][Next]_vars

\* one call of get_actions on every input
CallGetActions == GetActions(TbCalls)
SpecGet == Init /\ [][CallGetActions]_vars

TypeOK ==
    /\ states \in [Arms -> sspa]
    /\ virtual_states \in [Arms -> sspa]
    /\ actions \in [Arms -> aspa]
    /\ virtual_actions \in [Arms -> aspa]
    /\ pc \in {"get_actions", "step", "virtual_step", "round_done", "failed",
               "PriorityPolicy.returned", "RandomTBPolicy.returned", "solve",
               "solve_LP_Priority.returned", "solve_whittles_policy.returned",
               "fracs", "states_from_state_fracs.returned"}

(***************************************************************************)
(* Properties of the coupling (checked under Spec)                         *)
(***************************************************************************)
\* arm i agrees in the virtual_step call about to be made
Agreeing(i) == prev_states[i] = virtual_states[i] /\ actions[i] = virtual_actions[i]

\* C1: absorbing coupling.  An arm whose real state and real action equal its
\* virtual state and virtual action in a round has its virtual state equal to
\* its real state after the round; the equality is carried through the next
\* get_actions and RB.step, so that the arm's previous real state equals its
\* virtual state in the next virtual_step, and it is coupled again whenever
\* its actions agree again.
C1_AbsorbingCoupling ==
    [][\A i \in Arms :
         /\ (pc = "virtual_step" /\ Agreeing(i)) => virtual_states'[i] = states'[i]
         /\ (pc = "round_done" /\ virtual_states[i] = states[i])
               => virtual_states'[i] = states'[i]
         /\ (pc = "get_actions" /\ pc' = "step" /\ virtual_states[i] = states[i])
               => virtual_states'[i] = states'[i]
         /\ (pc = "step" /\ virtual_states[i] = states[i])
               => virtual_states'[i] = prev_states'[i]]_vars

\* a round ended in which an active arm agreed, moved, and is coupled
C1_Witness ==
    /\ pc = "round_done"
    /\ \E i \in agree_mask : /\ actions[i] = 1
                             /\ prev_states[i] # states[i]
                             /\ virtual_states[i] = states[i]

\* C2: virtual_step sets the virtual state of every agreeing arm to
\* cur_states[i] (states, at the time of the call) and does not resample it.
C2_AgreeingArmsSnapped ==
    [][pc = "virtual_step" =>
         \A i \in Arms : Agreeing(i) => virtual_states'[i] = states[i]]_vars

\* a round ended with an agreeing arm that moved and a bad arm that did not agree
C2_Witness ==
    /\ pc = "round_done"
    /\ \E i \in agree_mask, j \in Arms \ agree_mask :
          /\ prev_states[i] # states[i]
          /\ virtual_states[i] = states[i]
          /\ virtual_states[j] # states[j]

\* C3: virtual_step moves every non-agreeing arm by one transition of the
\* kernel from its virtual state under its virtual action.
C3_BadArmsOneTransition ==
    [][pc = "virtual_step" =>
         \A i \in Arms : ~Agreeing(i) =>
            virtual_states'[i] \in trans_tensor[virtual_states[i]][virtual_actions[i]]]_vars

\* a round ended in which a bad arm with virtual action 1 was moved into a state
\* whose (state, 1) bucket comes later in sa_pairs
C3_Witness ==
    /\ pc = "round_done"
    /\ \E i \in Arms \ agree_mask :
          /\ virtual_actions[i] = 1
          /\ virtual_states[i] = sspa_size - 1
          /\ virtual_states[i] # states[i]

(***************************************************************************)
(* Properties of get_actions (checked under SpecGet)                       *)
(***************************************************************************)
\* get_actions has returned
HasReturned == pc = "step"
Pos(list, s) == CHOOSE k \in 1..Len(list) : list[k] = s
PermutationGiven == tb_param.isList /\ IsPermutation(tb_param.list)
\* the level of the goodness order: (1, good) > (1, bad) > (0, bad) > (0, good)
GoodLevel(i) ==
    IF virtual_actions[i] = 1
    THEN (IF states[i] = virtual_states[i] THEN 1 ELSE 2)
    ELSE (IF states[i] = virtual_states[i] THEN 4 ELSE 3)

\* C4: with a supported rule (and a permutation for the list-based rules) the
\* returned actions are 0/1 with exactly budget ones, budget being the floor
\* of N * act_frac or that plus one, and N * act_frac itself when it is whole.
C4_ExactBudget ==
    (HasReturned /\ (tb_rule \in {"None", "goodness", "naive"} \/ PermutationGiven)) =>
        /\ actions \in [Arms -> {0, 1}]
        /\ NumOnes(actions) = budget
        /\ \/ budget * act_frac[2] <= N * act_frac[1]
                 /\ N * act_frac[1] < (budget + 1) * act_frac[2]
           \/ (budget - 1) * act_frac[2] <= N * act_frac[1]
                 /\ N * act_frac[1] < budget * act_frac[2]
        /\ ((N * act_frac[1]) % act_frac[2] = 0 => budget * act_frac[2] = N * act_frac[1])

\* the budget was rounded up and the priority fill had to activate passive arms
C4_Witness ==
    /\ HasReturned
    /\ tb_rule = "goodness-priority" /\ PermutationGiven
    /\ budget * act_frac[2] > N * act_frac[1]
    /\ NumOnes(virtual_actions) < budget
    /\ NumOnes(actions) = budget

\* C5: get_actions does not return from a greedy fill that left budget unused
\* (it fails instead).
C5_UnusedBudgetIsError ==
    HasReturned => rem_budget = 0

\* C6: goodness rule.  The code's four classes are the four levels, every arm
\* is in exactly one, an active arm implies all arms of higher levels active,
\* and at most one level is partially activated.
C6_GoodnessOrder ==
    (HasReturned /\ tb_rule \in {"None", "goodness"}) =>
        /\ \A i \in Arms : \A k \in 1..4 :
              i \in GoodnessClasses(states, virtual_states, virtual_actions)[k]
                 <=> GoodLevel(i) = k
        /\ \A i, j \in Arms :
              (actions[i] = 1 /\ GoodLevel(j) < GoodLevel(i)) => actions[j] = 1
        /\ Cardinality({k \in 1..4 : \E i, j \in Arms :
                           /\ GoodLevel(i) = k /\ GoodLevel(j) = k
                           /\ actions[i] = 1 /\ actions[j] = 0}) <= 1

\* the bad passive level is partially activated while a good passive arm is idle
C6_Witness ==
    /\ HasReturned /\ tb_rule = "goodness"
    /\ \E i, j, l \in Arms :
          /\ GoodLevel(i) = 3 /\ GoodLevel(j) = 3 /\ GoodLevel(l) = 4
          /\ actions[i] = 1 /\ actions[j] = 0 /\ actions[l] = 0

\* rank of the priority rule: virtual action 1 first, then position in tb_param
PriorityRank(i) ==
    (1 - virtual_actions[i]) * sspa_size + Pos(tb_param.list, virtual_states[i])

\* C7: priority rule with a permutation.  An active arm implies every arm of
\* strictly higher rank active; no passive-advised arm is active while an
\* active-advised arm is not.
C7_PriorityOrder ==
    (HasReturned /\ tb_rule = "priority" /\ PermutationGiven) =>
        /\ \A i, j \in Arms :
              (actions[i] = 1 /\ PriorityRank(j) < PriorityRank(i)) => actions[j] = 1
        /\ ~ \E i, j \in Arms : /\ virtual_actions[i] = 0 /\ actions[i] = 1
                                /\ virtual_actions[j] = 1 /\ actions[j] = 0

\* two arms with the same virtual action, the one whose virtual state comes first
\* in a list that does not start with state 0 is the active one
C7_Witness ==
    /\ HasReturned /\ tb_rule = "priority" /\ PermutationGiven
    /\ tb_param.list[1] # 0
    /\ \E i, j \in Arms :
          /\ virtual_actions[i] = virtual_actions[j]
          /\ PriorityRank(j) < PriorityRank(i)
          /\ actions[j] = 1 /\ actions[i] = 0

\* rank of the goodness-priority rule: goodness level, then position in tb_param
GoodnessPriorityRank(i) ==
    (GoodLevel(i) - 1) * sspa_size + Pos(tb_param.list, virtual_states[i])

\* C8: goodness-priority rule with a permutation.  An active arm implies every
\* arm of strictly higher rank active.
C8_GoodnessPriorityOrder ==
    (HasReturned /\ tb_rule = "goodness-priority" /\ PermutationGiven) =>
        \A i, j \in Arms :
           (actions[i] = 1 /\ GoodnessPriorityRank(j) < GoodnessPriorityRank(i))
              => actions[j] = 1

\* two arms of one goodness level in different virtual states, the one earlier in
\* the list active and the other not
C8_Witness ==
    /\ HasReturned /\ tb_rule = "goodness-priority" /\ PermutationGiven
    /\ \E i, j \in Arms :
          /\ GoodLevel(i) = GoodLevel(j)
          /\ virtual_states[i] # virtual_states[j]
          /\ GoodnessPriorityRank(j) < GoodnessPriorityRank(i)
          /\ actions[j] = 1 /\ actions[i] = 0

\* arms on which the real action differs from the virtual action
Flipped == {i \in Arms : actions[i] # virtual_actions[i]}

\* C9: naive rule.  The real actions differ from the virtual actions on exactly
\* |requests - budget| arms, all requests turned off when requests > budget,
\* all non-requests turned on when requests < budget; the returned virtual
\* actions are still the draw from the policy (the repair did not write them).
C9_NaiveRepair ==
    (HasReturned /\ tb_rule = "naive") =>
        /\ \A i \in Arms : virtual_actions[i] \in policy(y, virtual_states[i])
        /\ NumOnes(virtual_actions) > budget =>
              /\ Cardinality(Flipped) = NumOnes(virtual_actions) - budget
              /\ \A i \in Flipped : virtual_actions[i] = 1 /\ actions[i] = 0
        /\ NumOnes(virtual_actions) < budget =>
              /\ Cardinality(Flipped) = budget - NumOnes(virtual_actions)
              /\ \A i \in Flipped : virtual_actions[i] = 0 /\ actions[i] = 1
        /\ NumOnes(virtual_actions) = budget => actions = virtual_actions

\* more requests than budget: a request was turned off
C9_Witness ==
    /\ HasReturned /\ tb_rule = "naive"
    /\ NumOnes(virtual_actions) > budget
    /\ \E i \in Flipped : virtual_actions[i] = 1 /\ actions[i] = 0

\* C10: a call with an unsupported tb_rule, or with a list-based rule and a
\* tb_param that is not a list, ends in an error, returns nothing and leaves
\* the virtual states as they were.
C10_ConfigErrorsFailFast ==
    [][(\/ tb_rule' \notin {"None", "goodness", "naive", "priority", "goodness-priority"}
        \/ tb_rule' \in {"priority", "goodness-priority"} /\ ~tb_param'.isList)
       => /\ err' # "none"
          /\ pc' = "failed"
          /\ virtual_states' = virtual_states
          /\ actions' = actions /\ virtual_actions' = virtual_actions]_vars

\* a goodness-priority call without tb_param failed on arms that are not all coupled
C10_Witness ==
    /\ pc = "failed" /\ err = "AssertionError"
    /\ tb_rule = "goodness-priority" /\ ~tb_param.isList
    /\ \E i \in Arms : virtual_states[i] # states[i]

(***************************************************************************)
(* PriorityPolicy and RandomTBPolicy: policies of the real states          *)
(***************************************************************************)
\* s2indices[state] = np.where(cur_states == state)[0]
s2indices(cur) == [s \in sspa |-> {i \in Arms : cur[i] = s}]

\* the loop "for state in self.priority_list" without its last entry
PriorityLevelsShort(cur, list) ==
    [k \in 1..(Len(list) - 1) |-> s2indices(cur)[list[k]]]
\* the loop "for state in self.priority_list" from the low priorities up
PriorityLevelsReversed(cur, list) ==
    [k \in 1..Len(list) |-> s2indices(cur)[list[Len(list) + 1 - k]]]
\* the arms visited by "for state in self.priority_list", in that order
PriorityLevels(cur, list) == [k \in 1..Len(list) |-> s2indices(cur)[list[k]]]

\* PriorityPolicy.get_actions after the rounding: the greedy fill along the
\* list, then assert rem_budget == 0
PriorityPolicyResults(cur, list, b) ==
    {IF r[2] = 0 THEN Returned(r[1], Zeros, 0) ELSE Raised("AssertionError") :
       r \in Fill(PriorityLevels(cur, list), 1, Zeros, b)}

PriorityGetActions ==
    /\ pc = "get_actions"
    /\ \E b \in Budgets(act_frac) :
       \E res \in PriorityPolicyResults(states, priority_list, b) :
          /\ budget' = b
          /\ err' = res.err
          /\ actions' = res.actions
          /\ pc' = IF res.err = "none" THEN "PriorityPolicy.returned" ELSE "failed"
    /\ UNCHANGED <<states, virtual_states, prev_states, virtual_actions, tb_rule,
                   tb_param, rem_budget, agree_mask, params, otherVars, instant_reward>>

\* actions[s2indices[state]] = np.random.choice(aspa, p=self.policy[state]) for
\* every state (RandomTBPolicy.policy is built from y as FTVAPolicy.policy is)
SampleActions(cur, yy) == DrawVirtualActions(0, Zeros, cur, yy)

\* a repair that forgets the sample and activates any budget-many arms
RandomTBRepairAnew(smp, b) == {SetOnes(Zeros, c) : c \in ChooseK(Arms, b)}
\* num_requests > budget: a random subset of the requests is ignored;
\* otherwise a random subset of the non-requests is pulled
RandomTBRepair(smp, b) ==
    IF NumOnes(smp) > b
    THEN {SetZeros(smp, c) : c \in ChooseK(Ones(smp), NumOnes(smp) - b)}
    ELSE {SetOnes(smp, c) : c \in ChooseK(Arms \ Ones(smp), b - NumOnes(smp))}

RandomTBGetActions ==
    /\ pc = "get_actions"
    /\ \E smp \in SampleActions(states, y), b \in Budgets(act_frac) :
       \E acts \in RandomTBRepair(smp, b) :
          /\ sampled' = smp
          /\ budget' = b
          /\ actions' = acts
          /\ pc' = "RandomTBPolicy.returned"
    /\ UNCHANGED <<states, virtual_states, prev_states, virtual_actions, tb_rule,
                   tb_param, rem_budget, agree_mask, err, params, priority_list,
                   solverVars, fracVars, instant_reward>>

\* the priority lists a PriorityPolicy is constructed with
PriorityLists == Perms \cup {OmitList, RepeatList}

\* one call of get_actions of either policy, on every vector of current states
InitPolicy ==
    /\ states \in [Arms -> sspa]
    /\ virtual_states = Zeros
    /\ \E c \in Configs : /\ trans_tensor = c[1]
                          /\ y = c[2]
                          /\ act_frac = c[3]
    /\ pc = "get_actions"
    /\ NoCall
    /\ instant_reward = NoReward
    /\ priority_list \in PriorityLists
    /\ sampled = Zeros
    /\ NoSolver
    /\ NoFracs

NextPolicy == PriorityGetActions \/ RandomTBGetActions
SpecPolicy == InitPolicy /\ [][NextPolicy]_vars

(***************************************************************************)
(* Properties of PriorityPolicy and RandomTBPolicy (checked under          *)
(* SpecPolicy)                                                             *)
(***************************************************************************)
PriorityReturned == pc = "PriorityPolicy.returned"
\* the states of which some arm is active and some arm is not
MixedStates == {s \in sspa : /\ \E i \in Arms : states[i] = s /\ actions[i] = 1
                             /\ \E i \in Arms : states[i] = s /\ actions[i] = 0}

\* C11: PriorityPolicy.get_actions with a permutation as priority list never
\* fails its final assertion, and returns 0/1 actions with exactly budget ones,
\* budget being the floor or the ceiling of N * act_frac.
C11_PriorityExactBudget ==
    IsPermutation(priority_list) =>
        /\ pc # "failed"
        /\ PriorityReturned =>
             /\ actions \in [Arms -> {0, 1}]
             /\ NumOnes(actions) = budget
             /\ \/ budget * act_frac[2] <= N * act_frac[1]
                      /\ N * act_frac[1] < (budget + 1) * act_frac[2]
                \/ (budget - 1) * act_frac[2] < N * act_frac[1]
                      /\ N * act_frac[1] <= budget * act_frac[2]

\* the budget was rounded up and ran out in the middle of a state
C11_Witness ==
    /\ PriorityReturned
    /\ IsPermutation(priority_list)
    /\ budget * act_frac[2] > N * act_frac[1]
    /\ MixedStates # {}
    /\ NumOnes(actions) = budget

\* C12: in the actions PriorityPolicy.get_actions returns, an active arm in
\* state s means that every arm of a state earlier in the list is active; at
\* most one state has active and inactive arms, and no arm of a state later
\* than that one is active.
C12_PriorityOrderRespected ==
    (PriorityReturned /\ IsPermutation(priority_list)) =>
        /\ \A i, j \in Arms :
             (actions[i] = 1 /\ Pos(priority_list, states[j]) < Pos(priority_list, states[i]))
                 => actions[j] = 1
        /\ Cardinality(MixedStates) <= 1
        /\ \A s \in MixedStates : \A j \in Arms :
             Pos(priority_list, states[j]) > Pos(priority_list, s) => actions[j] = 0

\* a state was activated in full, the next one in part, and a later arm stayed passive
C12_Witness ==
    /\ PriorityReturned
    /\ IsPermutation(priority_list)
    /\ MixedStates # {}
    /\ \E i, j \in Arms : /\ actions[i] = 1 /\ actions[j] = 0
                          /\ Pos(priority_list, states[i]) < Pos(priority_list, states[j])
                          /\ states[j] \in MixedStates

RandomTBReturned == pc = "RandomTBPolicy.returned"
\* the arms whose returned action is not the sampled one
Repaired == {i \in Arms : actions[i] # sampled[i]}

\* C13: RandomTBPolicy.get_actions returns exactly budget ones, budget being
\* the floor of N * act_frac or that plus one; the returned actions differ
\* from the sampled ones on exactly |requests - budget| arms, all changed from
\* 1 to 0 when there are more requests than budget, all from 0 to 1 when fewer.
C13_RandomTBRepair ==
    RandomTBReturned =>
        /\ NumOnes(actions) = budget
        /\ \/ budget = (N * act_frac[1]) \div act_frac[2]
           \/ budget = ((N * act_frac[1]) \div act_frac[2]) + 1
        /\ IF NumOnes(sampled) > budget
           THEN /\ Cardinality(Repaired) = NumOnes(sampled) - budget
                /\ \A i \in Repaired : sampled[i] = 1 /\ actions[i] = 0
           ELSE /\ Cardinality(Repaired) = budget - NumOnes(sampled)
                /\ \A i \in Repaired : sampled[i] = 0 /\ actions[i] = 1

\* more requests than budget: some request was ignored and some was kept
C13_Witness ==
    /\ RandomTBReturned
    /\ NumOnes(sampled) > budget
    /\ Repaired # {}
    /\ \E i \in Arms : sampled[i] = 1 /\ actions[i] = 1

(***************************************************************************)
(* SingleArmAnalyzer.solve_LP_Priority                                     *)
(* Rewards and dual values are whole multiples of one unit.  P(s, a, .) is *)
(* the uniform distribution on trans_tensor[s][a]; a Q value is kept as    *)
(* its numerator over the common denominator CommonDen(trans_tensor).      *)
(* problem.solve() is modelled by its outcome: the dual values it leaves   *)
(* in the constraints.                                                     *)
(***************************************************************************)
\* number of grid points of the subsidy sweep: len(subsidy_values)
GridLen == 3
\* the dual values range over -DualRange..DualRange
DualRange == 2
DualGrid == (0 - DualRange)..DualRange

\* a common denominator of the probabilities of the kernel P
RECURSIVE ProdCard(_, _)
ProdCard(P, k) ==
    IF k > Len(sa_pairs) THEN 1
    ELSE Cardinality(P[sa_pairs[k][1]][sa_pairs[k][2]]) * ProdCard(P, k + 1)
CommonDen(P) == ProdCard(P, 1)
\* trans_tensor[s, a, t] * CommonDen
Weight(P, s, a, t) == IF t \in P[s][a] THEN CommonDen(P) \div Cardinality(P[s][a]) ELSE 0
\* np.sum(self.trans_tensor[s, a, :] * V) * den, den being CommonDen(P)
Expect(P, den, s, a, V) == (den \div Cardinality(P[s][a])) * Sum(V, P[s][a])

\* the value function read off the dual without the change of sign
ValueFuncUnsigned(dual) == dual
\* self.value_func_relaxed[i] = - constrs[i].dual_value
ValueFunc(dual) == 0 - dual

\* self.q_func_relaxed[i, j] times den, den being CommonDen(P)
QFunc(P, den, r, s, a, subsidy, avg, V) ==
    den * (r[s][a + 1] + (IF a = 0 THEN subsidy ELSE 0) - avg) + Expect(P, den, s, a, V)

\* np.argsort: the orders that sort gap increasingly (equal gaps in either order)
Argsort(gap) == {o \in Perms : \A k \in 1..(sspa_size - 1) : gap[o[k]] <= gap[o[k + 1]]}
\* argsort without the flip
Unflipped(o) == o
\* np.flip
Flip(o) == [k \in 1..Len(o) |-> o[Len(o) + 1 - k]]

\* the scratch fields after solve_LP_Priority(fixed) when the solver left the
\* dual values d; an is the analyzer before the call
SolvedAnalyzer(an, P, den, r, fixed, d) ==
    LET subsidy == IF fixed.given THEN fixed.value ELSE d.budget
        V == [s \in sspa |-> ValueFunc(d.stationary[s])]
    IN  [dualvar |-> IF fixed.given THEN "float" ELSE an.dualvar,
         avg_reward |-> d.basic,
         opt_subsidy |-> subsidy,
         value_func_relaxed |-> V,
         q_func_relaxed |->
             [s \in sspa |-> << <<QFunc(P, den, r, s, 0, subsidy, d.basic, V), den>>,
                                <<QFunc(P, den, r, s, 1, subsidy, d.basic, V), den>> >>]]

\* list(np.flip(np.argsort(q_func_relaxed[:,1] - q_func_relaxed[:,0])))
PriorityListOf(q) == {Flip(o) : o \in Argsort([s \in DOMAIN q |-> q[s][2][1] - q[s][1][1]])}

\* the values of fixed_dual the calls are made with
FixedDuals == {NoDual, FixedDual(0 - 1), FixedDual(1)}

\* solve_LP_Priority(fixed_dual), the solver leaving one of the dual values in
\* outcomes (with a fixed dual there is no budget constraint)
SolveLPPriority(outcomes) ==
    /\ pc \in {"solve", "solve_LP_Priority.returned"}
    /\ \E fixed \in FixedDuals :
       \E d \in {o \in outcomes : fixed.given => o.budget = 0} :
       \E after \in {SolvedAnalyzer(analyzer, trans_tensor, CommonDen(trans_tensor),
                                     reward_tensor, fixed, d)} :
       \E list \in PriorityListOf(after.q_func_relaxed) :
          /\ fixed_dual' = fixed
          /\ dual_value' = d
          /\ analyzer' = after
          /\ priority_list' = list
          /\ pc' = "solve_LP_Priority.returned"
    /\ UNCHANGED <<states, virtual_states, prev_states, actions, virtual_actions, tb_rule,
                   tb_param, budget, rem_budget, agree_mask, err, params, sampled,
                   reward_tensor, passive_table, indexable, fracVars, instant_reward>>

(***************************************************************************)
(* SingleArmAnalyzer.solve_whittles_policy                                 *)
(* The sweep is modelled by its outcome, the passive table; grid points    *)
(* are numbered from 1.                                                    *)
(***************************************************************************)
PassiveTables == [sspa -> [1..GridLen -> {0, 1}]]
\* np.where(passive_table[state, :])[0] is empty
NeverPassive(table, s) == \A k \in 1..GridLen : table[s][k] = 0
\* approx_wi = np.where(passive_table[state, :])[0][0]
approx_wi(table, s) ==
    CHOOSE k \in 1..GridLen : table[s][k] = 1 /\ \A l \in 1..(k - 1) : table[s][l] = 0
\* np.all(passive_table[state, approx_wi:] == 1)
MonotoneFrom(table, s) == \A k \in approx_wi(table, s)..GridLen : table[s][k] = 1
\* wi2state[wi]: the states with that index, in the order of "for state in self.sspa"
wi2state(table, wi) == SelectSeq(Increasing, LAMBDA s : approx_wi(table, s) = wi)

\* the lists of wi2state concatenated by increasing key, from key wi on
RECURSIVE WhittleListAscending(_, _)
WhittleListAscending(table, wi) ==
    IF wi < 1 THEN <<>>
    ELSE WhittleListAscending(table, wi - 1) \o wi2state(table, wi)
\* sorted(wi2state.keys(), reverse=True), then priority_list += wi2state_sorted[key]:
\* the lists concatenated by decreasing key, from key wi down
RECURSIVE WhittleList(_, _)
WhittleList(table, wi) ==
    IF wi < 1 THEN <<>>
    ELSE wi2state(table, wi) \o WhittleList(table, wi - 1)

\* indexable as the loop leaves it: the value computed for the last state
IndexableReturned(table) == MonotoneFrom(table, sspa_size - 1)

SolveWhittles ==
    /\ pc \in {"solve", "solve_LP_Priority.returned"}
    /\ IF analyzer.dualvar # "Parameter"
       THEN \* self.dualvar.value = subsidy on a number
            /\ err' = "AttributeError"
            /\ pc' = "failed"
            /\ UNCHANGED <<passive_table, priority_list, indexable>>
       ELSE \E table \in PassiveTables :
              /\ passive_table' = table
              /\ IF \E s \in sspa : NeverPassive(table, s)
                 THEN \* [0][0] on an empty array
                      /\ err' = "IndexError"
                      /\ pc' = "failed"
                      /\ UNCHANGED <<priority_list, indexable>>
                 ELSE /\ priority_list' = WhittleList(table, GridLen)
                      /\ indexable' = IndexableReturned(table)
                      /\ pc' = "solve_whittles_policy.returned"
                      /\ UNCHANGED err
    /\ UNCHANGED <<states, virtual_states, prev_states, actions, virtual_actions, tb_rule,
                   tb_param, budget, rem_budget, agree_mask, params, sampled,
                   reward_tensor, analyzer, fixed_dual, dual_value, fracVars,
                   instant_reward>>

SolverConfigs == { <<KernelCycle, RewardByState, <<1, 2>> >>,
                   <<KernelReset, RewardActive, <<1, 2>> >>,
                   <<KernelReset, RewardByState, <<1, 3>> >> }

\* SingleArmAnalyzer(sspa_size, trans_tensor, reward_tensor, act_frac)
InitSolver ==
    /\ states = Zeros
    /\ virtual_states = Zeros
    /\ y = YMixed
    /\ \E c \in SolverConfigs : /\ trans_tensor = c[1]
                                /\ reward_tensor = c[2]
                                /\ act_frac = c[3]
    /\ pc = "solve"
    /\ NoCall
    /\ instant_reward = NoReward
    /\ priority_list = <<>>
    /\ sampled = Zeros
    /\ analyzer = NewAnalyzer
    /\ fixed_dual = NoDual
    /\ dual_value = NoDualValue
    /\ passive_table = <<>>
    /\ indexable = FALSE
    /\ NoFracs

\* one call of solve_LP_Priority, on every outcome of the solver
AllDuals == {DualValue(nu, beta, gamma) :
               nu \in [sspa -> DualGrid], beta \in DualGrid, gamma \in DualGrid}
SolveLPOnce == pc = "solve" /\ SolveLPPriority(AllDuals)
SpecLP == InitSolver /\ [][SolveLPOnce]_vars

\* any sequence of calls of solve_LP_Priority, then solve_whittles_policy: the
\* subsidy sweep with every outcome, solve_LP_Priority with a few
FewDuals == {DualValue([s \in sspa |-> c * s], 0, 0) : c \in {0 - 1, 0, 1}}
SolveLPFew == SolveLPPriority(FewDuals)
NextSolver == SolveLPFew \/ SolveWhittles
SpecSolver == InitSolver /\ [][NextSolver]_vars

(***************************************************************************)
(* Properties of solve_whittles_policy (checked under SpecSolver)          *)
(***************************************************************************)
WhittlesReturned == pc = "solve_whittles_policy.returned"
LPReturned == pc = "solve_LP_Priority.returned"

\* C14: the flag solve_whittles_policy returns is true exactly when every
\* state is passive at every grid point from its first passive grid point on.
C14_IndexableIffAllMonotone ==
    WhittlesReturned => (indexable <=> \A s \in sspa : MonotoneFrom(passive_table, s))

\* C15: the index of a state is its first passive grid point; in the returned
\* list a state of larger index precedes a state of smaller index, and of two
\* states of equal index the one of smaller number comes first.
C15_WhittleOrder ==
    WhittlesReturned =>
        /\ IsPermutation(priority_list)
        /\ \A k, l \in 1..Len(priority_list) :
             LET wk == approx_wi(passive_table, priority_list[k])
                 wl == approx_wi(passive_table, priority_list[l])
             IN  (wk > wl \/ (wk = wl /\ priority_list[k] < priority_list[l])) => k < l

\* a state of larger number has the larger index and comes first
C15_Witness ==
    /\ WhittlesReturned
    /\ \E s, u \in sspa :
         /\ s < u
         /\ approx_wi(passive_table, s) < approx_wi(passive_table, u)
         /\ Pos(priority_list, u) < Pos(priority_list, s)

\* C16: neither solve call ends in an IndexError, and every list returned by
\* solve_LP_Priority or solve_whittles_policy is a permutation of the states.
C16_ListsArePermutations ==
    /\ err # "IndexError"
    /\ (LPReturned \/ WhittlesReturned) => IsPermutation(priority_list)

\* C18: solve_LP_Priority leaves dualvar a settable parameter, so that no
\* subsidy sweep of solve_whittles_policy fails setting it.
C18_DualvarStaysParameter ==
    /\ analyzer.dualvar = "Parameter"
    /\ err # "AttributeError"

(***************************************************************************)
(* Properties of solve_LP_Priority (checked under SpecLP)                  *)
(***************************************************************************)
\* the claimed gap Q(s,1) - Q(s,0), times CommonDen, from the dual values:
\* g the dual of the normalization, V minus the duals of the flow balance,
\* lambda the dual of the budget constraint or the fixed dual
ClaimedQ(s, a) ==
    LET g == dual_value.basic
        V == [u \in sspa |-> 0 - dual_value.stationary[u]]
        lambda == IF fixed_dual.given THEN fixed_dual.value ELSE dual_value.budget
    IN  CommonDen(trans_tensor) * (reward_tensor[s][a + 1] + (IF a = 0 THEN lambda ELSE 0) - g)
        + Sum([u \in sspa |-> Weight(trans_tensor, s, a, u) * V[u]], sspa)
ClaimedGap(s) == ClaimedQ(s, 1) - ClaimedQ(s, 0)

\* C17: the list solve_LP_Priority returns is sorted by non-increasing gap
\* Q(s,1) - Q(s,0), Q being r(s,a) + lambda*[a=0] - g + sum_s' P(s,a,s') V(s')
\* with g, V, lambda read off the duals (lambda the fixed dual when one is given).
C17_SortedByGap ==
    LPReturned =>
        /\ IsPermutation(priority_list)
        /\ \A s \in sspa, a \in aspa :
             analyzer.q_func_relaxed[s][a + 1] = <<ClaimedQ(s, a), CommonDen(trans_tensor)>>
        /\ \A k \in 1..(sspa_size - 1) :
             ClaimedGap(priority_list[k]) >= ClaimedGap(priority_list[k + 1])

\* a fixed dual was given, the gaps differ and the list is not the increasing one
C17_Witness ==
    /\ LPReturned
    /\ fixed_dual.given
    /\ ClaimedGap(priority_list[1]) > ClaimedGap(priority_list[sspa_size])
    /\ priority_list # Increasing

\* The LP of solve_LP_Priority() is min -r.y subject to, with multipliers
\* nu, beta, gamma: inflow(s) - outflow(s) = 0, sum_s y(s,1) - act_frac = 0,
\* sum(y) - 1 = 0, and y >= 0 (the bound 1e-8 taken as 0).
\* The reduced cost of y(s, a), times CommonDen:
DualSlack(P, r, d, s, a) ==
    CommonDen(P) * ((0 - r[s][a + 1]) - d.stationary[s]
                    + (IF a = 1 THEN d.budget ELSE 0) + d.basic)
    + Sum([u \in sspa |-> Weight(P, s, a, u) * d.stationary[u]], sspa)
DualFeasible(P, r, d) == \A s \in sspa, a \in aspa : DualSlack(P, r, d, s, a) >= 0
\* occupation measures with denominator D
PrimalGrid(D) == [sspa -> (0..D) \X (0..D)]
PrimalFeasible(P, af, yy, D) ==
    /\ Sum([s \in sspa |-> yy[s][1] + yy[s][2]], sspa) = D
    /\ af[2] * Sum([s \in sspa |-> yy[s][2]], sspa) = af[1] * D
    /\ \A u \in sspa :
         Sum([s \in sspa |-> yy[s][1] * Weight(P, s, 0, u) + yy[s][2] * Weight(P, s, 1, u)],
             sspa) = CommonDen(P) * (yy[u][1] + yy[u][2])
\* d is an optimal dual: it is feasible and some feasible y attains its value,
\* r.y = gamma + act_frac * beta
ExactLP(P, r, af, d) ==
    /\ DualFeasible(P, r, d)
    /\ \E yy \in PrimalGrid(2 * af[2]) :
         /\ PrimalFeasible(P, af, yy, 2 * af[2])
         /\ af[2] * Sum([s \in sspa |-> r[s][1] * yy[s][1] + r[s][2] * yy[s][2]], sspa)
              = 2 * af[2] * (af[2] * d.basic + af[1] * d.budget)

\* S=2, P(0,0,.)=[1,0], P(0,1,.)=[0,1], P(1,0,.)=[0,1], P(1,1,.)=[1,0],
\* r(0,.)=[0,0], r(1,.)=[1,1] (2 units of 1/2), act_frac=0.5, solved exactly
\* by solve_LP_Priority()
ScenarioSolved ==
    /\ sspa_size = 2
    /\ trans_tensor[0][0] = {0} /\ trans_tensor[0][1] = {1}
    /\ trans_tensor[1][0] = {1} /\ trans_tensor[1][1] = {0}
    /\ reward_tensor[0] = <<0, 0>> /\ reward_tensor[1] = <<2, 2>>
    /\ act_frac = <<1, 2>>
    /\ LPReturned
    /\ ~fixed_dual.given
    /\ ExactLP(trans_tensor, reward_tensor, act_frac, dual_value)

\* C19 as stated: in the 2-state scenario the list returned by
\* solve_LP_Priority() ranks state 1 above state 0.
C19_RanksStateOneFirst ==
    ScenarioSolved => Pos(priority_list, 1) < Pos(priority_list, 0)

\* C19 amended: in the 2-state scenario the list returned by
\* solve_LP_Priority() ranks state 0 above state 1.
C19_RanksStateZeroFirst ==
    ScenarioSolved => Pos(priority_list, 0) < Pos(priority_list, 1)

\* the scenario was solved: gamma = 1, beta = -1/2, nu(0) - nu(1) = 1/2
C19_Witness ==
    /\ ScenarioSolved
    /\ dual_value.basic = 2
    /\ dual_value.budget = 0 - 1
    /\ dual_value.stationary[0] - dual_value.stationary[1] = 1

(***************************************************************************)
(* states_from_state_fracs and sa_list_to_freq                             *)
(* state_fracs[s] is a whole number of FracDen-ths and the sums and the    *)
(* products are exact; an array of n arms is a function on 0..n-1.         *)
(***************************************************************************)
\* denominator of the state fractions, and the largest N of a call
FracDen == 6
MaxArms == 8
\* the vectors of fractions that sum to 1
StateFracs == {f \in [sspa -> 0..FracDen] : Sum(f, sspa) = FracDen}

\* np.sum(state_fracs[0:s]), times FracDen
CumFrac(fracs, s) == Sum(fracs, 0..(s - 1))
\* start_ind = int(N * np.sum(state_fracs[0:s]))
start_ind(n, fracs, s) == (n * CumFrac(fracs, s)) \div FracDen
\* the end of the slice from the fraction of the state alone
end_ind_own(n, fracs, s) == start_ind(n, fracs, s) + ((n * fracs[s]) \div FracDen)
\* end_ind = int(N * np.sum(state_fracs[0:(s+1)]))
end_ind(n, fracs, s) == (n * CumFrac(fracs, s + 1)) \div FracDen

\* states = np.zeros((N,)); for s in range(sspa_size): states[start_ind:end_ind] = s
RECURSIVE AssignSlices(_, _, _, _)
AssignSlices(s, arr, n, fracs) ==
    IF s >= sspa_size THEN arr
    ELSE AssignSlices(s + 1,
                      [i \in 0..(n - 1) |->
                         IF start_ind(n, fracs, s) <= i /\ i < end_ind(n, fracs, s)
                         THEN s ELSE arr[i]],
                      n, fracs)
states_from_state_fracs(n, fracs) == AssignSlices(0, [i \in 0..(n - 1) |-> 0], n, fracs)

\* sa_list_to_freq: sa_pair_freq[s, a] before the division by len(states)
sa_list_to_freq(sts, acts, n) ==
    [s \in sspa |-> [a \in aspa |->
        Cardinality({i \in 0..(n - 1) : sts[i] = s /\ acts[i] = a})]]

StatesFromStateFracs ==
    /\ pc = "fracs"
    /\ frac_states' = states_from_state_fracs(num_arms, state_fracs)
    /\ pc' = "states_from_state_fracs.returned"
    /\ UNCHANGED <<states, virtual_states, prev_states, actions, virtual_actions, tb_rule,
                   tb_param, budget, rem_budget, agree_mask, err, params, priority_list,
                   sampled, solverVars, num_arms, state_fracs, sa_pair_fracs,
                   instant_reward>>

\* one call states_from_state_fracs(sspa_size, N, state_fracs)
InitFracs ==
    /\ states = Zeros
    /\ virtual_states = Zeros
    /\ trans_tensor = KernelCycle
    /\ y = YMixed
    /\ act_frac = <<1, 2>>
    /\ pc = "fracs"
    /\ NoCall
    /\ instant_reward = NoReward
    /\ priority_list = <<>>
    /\ sampled = Zeros
    /\ NoSolver
    /\ num_arms \in 1..MaxArms
    /\ state_fracs \in StateFracs
    /\ frac_states = <<>>
    /\ sa_pair_fracs = <<>>

SpecFracs == InitFracs /\ [][StatesFromStateFracs]_vars

(***************************************************************************)
(* Properties of states_from_state_fracs (checked under SpecFracs)         *)
(***************************************************************************)
FracsReturned == pc = "states_from_state_fracs.returned"
\* number of arms in state s by sa_list_to_freq, all actions being 0
FracCount(s) ==
    LET freq == sa_list_to_freq(frac_states, [i \in 0..(num_arms - 1) |-> 0], num_arms)
    IN  freq[s][0] + freq[s][1]

\* C20: for fractions that sum to 1 and N >= 1 the returned array has length
\* N, every arm lies in the slice of the state it holds, the states are
\* non-decreasing along the array, and the number of arms in state s differs
\* from N * f[s] by less than 1 (the frequency is within 1/N of f[s]).
C20_FracsRoundTrip ==
    FracsReturned =>
        /\ DOMAIN frac_states = 0..(num_arms - 1)
        /\ \A i \in 0..(num_arms - 1) :
             /\ frac_states[i] \in sspa
             /\ start_ind(num_arms, state_fracs, frac_states[i]) <= i
             /\ i < end_ind(num_arms, state_fracs, frac_states[i])
        /\ \A i, j \in 0..(num_arms - 1) : i <= j => frac_states[i] <= frac_states[j]
        /\ \A s \in sspa :
             /\ FracCount(s) * FracDen - num_arms * state_fracs[s] < FracDen
             /\ num_arms * state_fracs[s] - FracCount(s) * FracDen < FracDen

\* N * f[s] is not whole for some state, and the counts are rounded both ways
C20_Witness ==
    /\ FracsReturned
    /\ \E s, u \in sspa :
         /\ FracCount(s) * FracDen < num_arms * state_fracs[s]
         /\ FracCount(u) * FracDen > num_arms * state_fracs[u]

(***************************************************************************)
(* Further properties of the simulation (checked under Spec)               *)
(***************************************************************************)
\* C21: after construction and after every get_actions, rb.step and
\* virtual_step of the simulation the policy holds exactly one virtual state
\* per arm index, each a state of sspa.
C21_VirtualStatesInRange ==
    /\ DOMAIN virtual_states = Arms
    /\ \A i \in Arms : virtual_states[i] \in sspa

\* virtual_step has snapped some arms to their real state and moved the others
C21_Witness ==
    /\ pc = "round_done"
    /\ agree_mask # {} /\ agree_mask # Arms
    /\ \E i \in agree_mask : virtual_states[i] = states[i] /\ states[i] # prev_states[i]
    /\ C21_VirtualStatesInRange

\* the reward RB.step is to return: (1/N) times the sum over the arms of
\* r(pre-step state, action), as a numerator over N
RewardOfArms == Sum([i \in Arms |-> reward_tensor[prev_states[i]][actions[i] + 1]], Arms)

\* C23: after RB.step every arm is in a state its pre-step (state, action)
\* pair leads to with positive probability (it has moved exactly once), and
\* the returned reward is (1/N) times the sum over arms of r(pre-step state, action).
C23_StepMovesEveryArmOnce ==
    pc = "virtual_step" =>
        /\ \A i \in Arms : states[i] \in trans_tensor[prev_states[i]][actions[i]]
        /\ instant_reward = <<RewardOfArms, N>>

\* an arm moved into a state whose bucket is processed after its own, where an
\* arm with the same action could not stay; the reward is positive
C23_Witness ==
    /\ pc = "virtual_step"
    /\ \E i \in Arms : \E k, l \in 1..Len(sa_pairs) :
         /\ sa_pairs[k] = <<prev_states[i], actions[i]>>
         /\ sa_pairs[l] = <<states[i], actions[i]>>
         /\ k < l
         /\ states[i] \notin trans_tensor[states[i]][actions[i]]
    /\ instant_reward[1] > 0

(***************************************************************************)
(* Further properties of FTVAPolicy.get_actions (checked under SpecGet)    *)
(***************************************************************************)
\* pi(a | s) > 0, from y: the row of s normalized, uniform when the row is zero
PiPositive(s, a) == IF y[s][1] + y[s][2] > 0 THEN y[s][a + 1] > 0 ELSE TRUE

\* C22: every returned virtual action a of an arm has pi(a | virtual state of
\* the arm) > 0, whatever the real states and the tie-break rule; so a virtual
\* state with pi(1|v) = 1 gets virtual action 1 and one with pi(0|v) = 1 gets 0.
C22_VirtualActionsFollowPolicy ==
    HasReturned =>
        \A i \in Arms :
            /\ PiPositive(virtual_states[i], virtual_actions[i])
            /\ ~PiPositive(virtual_states[i], 0) => virtual_actions[i] = 1
            /\ ~PiPositive(virtual_states[i], 1) => virtual_actions[i] = 0

\* a bad arm whose virtual state allows one action only got that action under
\* the naive rule, though its real state allows the other action
C22_Witness ==
    /\ HasReturned /\ tb_rule = "naive"
    /\ \E i \in Arms :
         /\ states[i] # virtual_states[i]
         /\ ~PiPositive(virtual_states[i], 1 - virtual_actions[i])
         /\ PiPositive(states[i], 1 - virtual_actions[i])
         /\ actions[i] # virtual_actions[i]

\* C24: a get_actions call leaves the virtual states as they were, for every
\* tie-break rule and also when it fails.
C24_GetActionsKeepsVirtualStates ==
    [][pc = "get_actions" => virtual_states' = virtual_states]_vars

\* a call has returned real actions that differ from the virtual ones for arms
\* whose real state is not the virtual one
C24_Witness ==
    /\ HasReturned
    /\ \E i \in Arms : states[i] # virtual_states[i] /\ actions[i] # virtual_actions[i]
    /\ \E i \in Arms : states[i] # virtual_states[i] /\ actions[i] = 1

\* the good arms with virtual action a
GoodWith(a) == {i \in Arms : states[i] = virtual_states[i] /\ virtual_actions[i] = a}

\* C25: under tb_rule None or "goodness" a good arm with virtual action 1 gets
\* action 0 only if there are more good arms with virtual action 1 than budget,
\* and a good arm with virtual action 0 gets action 1 only if the budget exceeds
\* N minus the number of good arms with virtual action 0; so when neither is the
\* case every good arm's action is its virtual action.
C25_GoodArmsKept ==
    (HasReturned /\ tb_rule \in {"None", "goodness"}) =>
        /\ \A i \in GoodWith(1) : actions[i] = 0 => Cardinality(GoodWith(1)) > budget
        /\ \A i \in GoodWith(0) : actions[i] = 1 => budget > N - Cardinality(GoodWith(0))
        /\ (Cardinality(GoodWith(1)) <= budget /\ budget <= N - Cardinality(GoodWith(0)))
              => \A i \in GoodWith(0) \cup GoodWith(1) : actions[i] = virtual_actions[i]

\* all good arms kept their virtual action while a bad request was refused
C25_Witness ==
    /\ HasReturned /\ tb_rule = "goodness"
    /\ GoodWith(1) # {} /\ GoodWith(0) # {}
    /\ \A i \in GoodWith(0) \cup GoodWith(1) : actions[i] = virtual_actions[i]
    /\ \E j \in Arms : states[j] # virtual_states[j] /\ virtual_actions[j] = 1 /\ actions[j] = 0

(***************************************************************************)
(* PriorityPolicy.get_sa_pair_fracs                                        *)
(* cur_state_fracs[s] is state_fracs[s] / FracDen; the budget and the      *)
(* entries of the result are numerators over FracDen * act_frac[2], so     *)
(* that the arithmetic is exact.                                           *)
(***************************************************************************)
\* the partial branch leaving the budget as it was
RemKept(rem) == rem
\* rem_budget_normalize = 0 in the partial branch
RemAfterPartial(rem) == 0

\* the loop "for state in self.priority_list" from entry k on: the result is
\* <<sa_pair_fracs, rem_budget_normalize>>, sa[s] being <<sa[s, 0], sa[s, 1]>>
RECURSIVE AllocateFracs(_, _, _, _, _)
AllocateFracs(k, list, f, sa, rem) ==
    IF k > Len(list) THEN <<sa, rem>>
    ELSE LET state == list[k]
         IN  IF rem >= f[state]
             THEN AllocateFracs(k + 1, list, f,
                                [sa EXCEPT ![state] = <<0, f[state]>>], rem - f[state])
             ELSE AllocateFracs(k + 1, list, f,
                                [sa EXCEPT ![state] = <<f[state] - rem, rem>>],
                                RemAfterPartial(rem))

\* get_sa_pair_fracs(cur_state_fracs): the loop from act_frac on zeros, then
\* assert rem_budget_normalize == 0.0
GetSaPairFracsResult(list, fracs, af) ==
    LET res == AllocateFracs(1, list, [s \in sspa |-> fracs[s] * af[2]],
                             [s \in sspa |-> <<0, 0>>], af[1] * FracDen)
    IN  IF res[2] = 0 THEN [err |-> "none", fracs |-> res[1]]
        ELSE [err |-> "AssertionError", fracs |-> <<>>]

GetSaPairFracs ==
    /\ pc = "get_sa_pair_fracs"
    /\ \E res \in {GetSaPairFracsResult(priority_list, state_fracs, act_frac)} :
          /\ err' = res.err
          /\ sa_pair_fracs' = res.fracs
          /\ pc' = IF res.err = "none" THEN "get_sa_pair_fracs.returned" ELSE "failed"
    /\ UNCHANGED <<states, virtual_states, prev_states, actions, virtual_actions, tb_rule,
                   tb_param, budget, rem_budget, agree_mask, params, priority_list,
                   sampled, solverVars, num_arms, state_fracs, frac_states,
                   instant_reward>>

\* values of act_frac in (0, 1)
ActFracs == {<<1, 2>>, <<1, 3>>, <<2, 3>>}

\* one call policy.get_sa_pair_fracs(cur_state_fracs) of a PriorityPolicy
InitMeanField ==
    /\ states = Zeros
    /\ virtual_states = Zeros
    /\ trans_tensor = KernelCycle
    /\ y = YMixed
    /\ act_frac \in ActFracs
    /\ pc = "get_sa_pair_fracs"
    /\ NoCall
    /\ instant_reward = NoReward
    /\ priority_list \in PriorityLists
    /\ sampled = Zeros
    /\ NoSolver
    /\ num_arms = 0
    /\ state_fracs \in StateFracs
    /\ frac_states = <<>>
    /\ sa_pair_fracs = <<>>

SpecMeanField == InitMeanField /\ [][GetSaPairFracs]_vars

(***************************************************************************)
(* Properties of get_sa_pair_fracs (checked under SpecMeanField)           *)
(***************************************************************************)
SaPairFracsReturned == pc = "get_sa_pair_fracs.returned"

\* C26: for fractions that sum to 1, a permutation as priority list and
\* act_frac in (0,1), get_sa_pair_fracs does not fail its assertion; the two
\* entries of every state are nonnegative and sum to the fraction of the state,
\* the active column sums to act_frac, and a state has active mass only if
\* every state of higher priority is fully active.
C26_MeanFieldAllocation ==
    IsPermutation(priority_list) =>
        /\ pc # "failed"
        /\ SaPairFracsReturned =>
             /\ \A s \in sspa :
                  /\ sa_pair_fracs[s][1] >= 0 /\ sa_pair_fracs[s][2] >= 0
                  /\ sa_pair_fracs[s][1] + sa_pair_fracs[s][2] = state_fracs[s] * act_frac[2]
             /\ Sum([s \in sspa |-> sa_pair_fracs[s][2]], sspa) = act_frac[1] * FracDen
             /\ \A s, u \in sspa :
                  (sa_pair_fracs[s][2] > 0 /\ Pos(priority_list, u) < Pos(priority_list, s))
                      => sa_pair_fracs[u][1] = 0

\* the first state of the list is fully active and the budget ran out inside
\* the second, which is not the state of smaller number
C26_Witness ==
    /\ SaPairFracsReturned
    /\ IsPermutation(priority_list)
    /\ priority_list # Increasing
    /\ sa_pair_fracs[priority_list[1]][2] > 0
    /\ sa_pair_fracs[priority_list[2]][1] > 0 /\ sa_pair_fracs[priority_list[2]][2] > 0
====
